---- MODULE Spec2Model ----
(***************************************************************************)
(* Model of pos_system.py: the Order entity, the Database (SQLite file     *)
(* with the tables products, orders, order_items, members) and POSSystem.  *)
(*                                                                         *)
(* Money is counted in integer cents (3.00 -> 300); the rounding of the    *)
(* binary floating-point REAL columns is not modelled.  Product names are  *)
(* left out of the rows; every other column the code writes is kept.       *)
(*                                                                         *)
(* The SQLite file has one writer at a time: a connection that has run an  *)
(* INSERT/UPDATE holds the write lock until it commits or is closed, and   *)
(* every other connection that tries to write in the meantime gets         *)
(* "database is locked" after the busy timeout.  The variable db_lock      *)
(* names the holder: "free", the till whose save_order is between its      *)
(* first INSERT and its commit, or "leaked" for a connection that          *)
(* save_order left open on its except path (it is closed, and its          *)
(* transaction rolled back, when the garbage collector gets to it).        *)
(*                                                                         *)
(* process_payment is two steps, so that other connections can act while   *)
(* save_order holds the lock: process_payment (up to the header INSERT)    *)
(* and finish_payment (the rest of save_order and of process_payment).     *)
(* ret is the outcome of the latest call: its arguments and return value.  *)
(*                                                                         *)
(* Five specifications run the same actions on different inputs:           *)
(*   Spec        one till, the whole catalog, the clock, the sales report  *)
(*   SpecMember  one till, one product, orders with and without a member   *)
(*   SpecConc    two tills and a client of update_stock on one pos.db      *)
(*   SpecQty     one till, one product, quantities of either sign, scans   *)
(*               by id and by barcode                                      *)
(*   SpecLedger  one till, two products, settled orders of several lines   *)
(***************************************************************************)
EXTENDS Integers, Sequences, FiniteSets, TLC

\* ------------------------------------------------------------------ bounds
MaxTime == 1          \* the clock takes the values 0..MaxTime (seconds)
MaxQty == 2           \* a line item's quantity stays within -MaxQty..MaxQty

\* ------------------------------------------------------------------ inputs
AllTills == {"till1", "till2"}       \* POSSystem instances sharing pos.db
NoMember == "None"                   \* Python None as a member reference

\* one till, no other client of pos.db
Tills == {"till1"}
ScanIds == 1..4                      \* product ids passed to scan_product
ScanQtys == {1, 2}                   \* quantities passed to scan_product
Amounts == {0, 600}                  \* amounts tendered (cents)
Methods == {"Card"}                  \* payment methods passed in
MemberRefs == {"M001"}               \* member ids passed to start_order

\* one till, one product, orders with and without a member
MemScanIds == {1}
MemScanQtys == {1, 2}
MemAmounts == {600}
MemMemberRefs == {NoMember, "M001", "M999"}

\* dates asked of the sales report: the first day and a day with no orders
ReportDates == {0, 2}

\* one till, one product, quantities of either sign, scans by barcode
QtyScanIds == {1, 4}
QtyScanQtys == {-1, 1}
QtyBarcodes == {"6901234567890", "6934567890123", "0000000000000"}
QtyAmounts == {0}

\* one till, two products, an amount that pays for orders of several lines
LedgerScanIds == {1, 2}
LedgerScanQtys == {1}
LedgerAmounts == {1050}

\* two tills and a client calling update_stock, all within one clock second
ConcScanIds == {1}
ConcScanQtys == {1}
ConcAmounts == {600}
ConcMemberRefs == {NoMember}
StockIds == {1, 4}                   \* product ids passed to update_stock
StockQtys == {1, 2}                  \* quantities passed to update_stock

None == [none |-> TRUE]              \* Python None as current_order

VARIABLES now, current_order, pc, amount_tendered,
          products, orders, order_items, members, db_lock, ret

vars == <<now, current_order, pc, amount_tendered,
          products, orders, order_items, members, db_lock, ret>>

stores == <<products, orders, order_items, members>>

\* ------------------------------------------------------------ Order entity
\* OrderItem.subtotal
subtotal(item) == (item.unit_price * item.quantity) - item.discount

RECURSIVE SumSubtotals(_)
SumSubtotals(items) ==
    IF items = <<>> THEN 0
    ELSE subtotal(Head(items)) + SumSubtotals(Tail(items))

\* Order.total
total(order) == SumSubtotals(order.items)

RECURSIVE SumQuantities(_)
SumQuantities(items) ==
    IF items = <<>> THEN 0
    ELSE Head(items).quantity + SumQuantities(Tail(items))

\* Order.item_count
item_count(order) == SumQuantities(order.items)

\* OrderItem(product_id, product_name, unit_price, quantity), discount = 0.0
OrderItem(product_id, unit_price, quantity) ==
    [product_id |-> product_id, unit_price |-> unit_price,
     quantity |-> quantity, discount |-> 0]

\* mutant: every scan appends a line of its own
add_item_append(items, product_id, unit_price, quantity) ==
    Append(items, OrderItem(product_id, unit_price, quantity))

\* Order.add_item: the first line with this product id gets the quantity
\* added; with no such line a new one is appended.
add_item(items, product_id, unit_price, quantity) ==
    IF \E i \in 1..Len(items) : items[i].product_id = product_id
    THEN LET k == CHOOSE i \in 1..Len(items) :
                    /\ items[i].product_id = product_id
                    /\ \A j \in 1..(i-1) : items[j].product_id # product_id
         IN [items EXCEPT ![k].quantity = @ + quantity]
    ELSE Append(items, OrderItem(product_id, unit_price, quantity))

\* Order("", member_id=member_id): order_id and created_at come from the clock
NewOrder(member_id) ==
    [order_id |-> now, items |-> <<>>, member_id |-> member_id,
     payment_method |-> "Cash", payment_status |-> "Pending",
     created_at |-> now]

\* ---------------------------------------------------------------- Database
\* init_sample_data: the first three sample products and the two sample
\* members; the stock column is scaled down, and row 3 is a
\* deactivated row of an existing pos.db (init_db keeps existing rows).
SampleProducts ==
    [id \in 1..3 |->
        [price  |-> CASE id = 1 -> 300 [] id = 2 -> 450 [] OTHER -> 1280,
         stock  |-> CASE id = 1 -> 2 [] id = 2 -> 1 [] OTHER -> 1,
         barcode |-> CASE id = 1 -> "6901234567890"
                       [] id = 2 -> "6923456789012"
                       [] OTHER -> "6934567890123",
         active |-> id # 3]]

SampleMembers ==
    [m \in {"M001", "M002"} |->
        IF m = "M001" THEN [points |-> 500, total_spent |-> 850000]
        ELSE [points |-> 200, total_spent |-> 180000]]

\* mutant: the query does not filter on the active column
get_product_any(product_id) ==
    IF product_id \in DOMAIN products
    THEN [found |-> TRUE, id |-> product_id,
          price |-> products[product_id].price,
          stock |-> products[product_id].stock]
    ELSE [found |-> FALSE, id |-> product_id, price |-> 0, stock |-> 0]

\* get_product: SELECT * FROM products WHERE id = ? AND active = 1
get_product(product_id) ==
    IF product_id \in DOMAIN products /\ products[product_id].active
    THEN [found |-> TRUE, id |-> product_id,
          price |-> products[product_id].price,
          stock |-> products[product_id].stock]
    ELSE [found |-> FALSE, id |-> product_id, price |-> 0, stock |-> 0]

\* get_product_by_barcode:
\*   SELECT * FROM products WHERE barcode = ? AND active = 1, first row
get_product_by_barcode(barcode) ==
    LET ids == {id \in DOMAIN products :
                   products[id].barcode = barcode /\ products[id].active}
    IN IF ids # {}
       THEN LET first == CHOOSE id \in ids : \A other \in ids : id <= other
            IN [found |-> TRUE, id |-> first,
                price |-> products[first].price,
                stock |-> products[first].stock]
       ELSE [found |-> FALSE, id |-> 0, price |-> 0, stock |-> 0]

\* A new connection cannot write while another connection holds the lock.
Locked(lk) == lk # "free"

\* mutant: the UPDATE has no "AND stock >= ?" condition
update_stock_unguarded(prods, lk, product_id, quantity) ==
    IF Locked(lk)
    THEN [ok |-> FALSE, products |-> prods]
    ELSE IF product_id \in DOMAIN prods
         THEN [ok |-> TRUE,
               products |-> [prods EXCEPT ![product_id].stock = @ - quantity]]
         ELSE [ok |-> FALSE, products |-> prods]

\* update_stock on a connection of its own:
\*   UPDATE products SET stock = stock - ? WHERE id = ? AND stock >= ?
\* "database is locked" is swallowed by the bare except and gives False.
update_stock(prods, lk, product_id, quantity) ==
    IF Locked(lk)
    THEN [ok |-> FALSE, products |-> prods]
    ELSE IF product_id \in DOMAIN prods /\ prods[product_id].stock >= quantity
         THEN [ok |-> TRUE,
               products |-> [prods EXCEPT ![product_id].stock = @ - quantity]]
         ELSE [ok |-> FALSE, products |-> prods]

\* mutant: CAST(? AS INTEGER), the factor ten is missing
CastPoints_unscaled(total_cents) == total_cents \div 100

\* CAST(? * 10 AS INTEGER) with the total in currency units: the total in
\* cents divided by ten, truncated toward zero.
CastPoints(total_cents) ==
    IF total_cents >= 0 THEN total_cents \div 10
    ELSE -((-total_cents) \div 10)

\* save_order, the header row of INSERT INTO orders
HeaderRow(order) ==
    [order_id |-> order.order_id, member_id |-> order.member_id,
     payment_method |-> order.payment_method,
     payment_status |-> order.payment_status,
     total_amount |-> total(order), created_at |-> order.created_at]

\* mutant: the quantity column is left at one
ItemRow_unit(order, item) ==
    [order_id |-> order.order_id, product_id |-> item.product_id,
     unit_price |-> item.unit_price, quantity |-> 1,
     discount |-> item.discount]

\* save_order, one row of INSERT INTO order_items
ItemRow(order, item) ==
    [order_id |-> order.order_id, product_id |-> item.product_id,
     unit_price |-> item.unit_price, quantity |-> item.quantity,
     discount |-> item.discount]

\* save_order, the loop over order.items: each item is inserted on the
\* saving connection and update_stock is called (its result is dropped).
RECURSIVE SaveItems(_, _, _, _, _)
SaveItems(order, i, rows, prods, lk) ==
    IF i > Len(order.items) THEN [rows |-> rows, products |-> prods]
    ELSE SaveItems(order, i + 1,
                   Append(rows, ItemRow(order, order.items[i])),
                   update_stock(prods, lk, order.items[i].product_id,
                                order.items[i].quantity).products,
                   lk)

\* mutant: the header replaces what the table held
InsertHeader_latest(rows, row) == <<row>>

\* save_order, INSERT INTO orders: one more row, the others as they were
InsertHeader(rows, row) == Append(rows, row)

\* mutant: a member row is written whether or not one matched
MemberAccrual_upsert(mems, order) ==
    IF order.member_id # NoMember
    THEN [m \in DOMAIN mems \cup {order.member_id} |->
            IF m = order.member_id
            THEN [points |-> (IF m \in DOMAIN mems THEN mems[m].points ELSE 0)
                             + CastPoints(total(order)),
                  total_spent |->
                      (IF m \in DOMAIN mems THEN mems[m].total_spent ELSE 0)
                      + total(order)]
            ELSE mems[m]]
    ELSE mems

\* save_order, UPDATE members ... WHERE member_id = ?  (if order.member_id)
MemberAccrual(mems, order) ==
    IF order.member_id # NoMember /\ order.member_id \in DOMAIN mems
    THEN [mems EXCEPT ![order.member_id] =
            [points |-> @.points + CastPoints(total(order)),
             total_spent |-> @.total_spent + total(order)]]
    ELSE mems

\* mutant: orders.order_id is not a key
HasHeader_nokey(rows, order_id) == FALSE

\* PRIMARY KEY of orders
HasHeader(rows, order_id) ==
    \E i \in 1..Len(rows) : rows[i].order_id = order_id

\* mutant: the amount is never compared with the total
InsufficientAmount_never(order, amount) == FALSE

\* process_payment: if amount < self.current_order.total
InsufficientAmount(order, amount) == amount < total(order)

\* mutant: the operands of the subtraction are swapped
Change_swapped(order, amount) == total(order) - amount

\* process_payment: change = amount - self.current_order.total
Change(order, amount) == amount - total(order)

\* mutant: the status is left as it was
MarkPaid_unset(order, payment_method) ==
    [order EXCEPT !.payment_method = payment_method]

\* process_payment: payment_method and payment_status are assigned before
\* save_order is called and are not assigned again
MarkPaid(order, payment_method) ==
    [order EXCEPT !.payment_method = payment_method,
                  !.payment_status = "Paid"]

\* created_at is 'YYYY-MM-DD HH:MM:SS' and DATE(created_at) its first part.
\* Second 0 of the clock is 23:59:59 of day 0, second 1 begins day 1.
DateOf(ts) == (ts + 86399) \div 86400

\* get_daily_sales, COUNT(*) ... WHERE DATE(created_at) = ?
RECURSIVE CountOn(_, _)
CountOn(rows, date) ==
    IF rows = <<>> THEN 0
    ELSE (IF DateOf(Head(rows).created_at) = date THEN 1 ELSE 0)
         + CountOn(Tail(rows), date)

\* get_daily_sales, SUM(total_amount) ... WHERE DATE(created_at) = ?
RECURSIVE SumOn(_, _)
SumOn(rows, date) ==
    IF rows = <<>> THEN 0
    ELSE (IF DateOf(Head(rows).created_at) = date
          THEN Head(rows).total_amount ELSE 0)
         + SumOn(Tail(rows), date)

\* mutant: the query has no WHERE clause
daily_sales_all(rows, date) ==
    IF Len(rows) # 0
    THEN [order_count |-> Len(rows), total_sales |-> SumOn(rows, date),
          avg_order |-> SumOn(rows, date) \div Len(rows)]
    ELSE [order_count |-> 0, total_sales |-> 0, avg_order |-> 0]

\* get_daily_sales, the row of the query or the dictionary of zeros
\* (avg_order in whole cents)
daily_sales(rows, date) ==
    IF CountOn(rows, date) # 0
    THEN [order_count |-> CountOn(rows, date),
          total_sales |-> SumOn(rows, date),
          avg_order |-> SumOn(rows, date) \div CountOn(rows, date)]
    ELSE [order_count |-> 0, total_sales |-> 0, avg_order |-> 0]

\* ------------------------------------------------------------ return values
Ret(op, till, pid, qty, method, amount, ok, msg, n, change) ==
    [op |-> op, till |-> till, pid |-> pid, qty |-> qty, method |-> method,
     amount |-> amount, ok |-> ok, msg |-> msg, n |-> n, change |-> change]

\* ---------------------------------------------------------------- initial
Init ==
    /\ now = 0
    /\ current_order = [t \in AllTills |-> None]
    /\ pc = [t \in AllTills |-> "idle"]
    /\ amount_tendered = [t \in AllTills |-> 0]
    /\ products = SampleProducts
    /\ orders = <<>>
    /\ order_items = <<>>
    /\ members = SampleMembers
    /\ db_lock = "free"
    /\ ret = Ret("init", "", 0, 0, "", 0, TRUE, "", 0, 0)

\* ---------------------------------------------------------------- POSSystem
\* mutant: an open order is kept
start_order_keep(t, member_id) ==
    /\ pc[t] = "idle"
    /\ current_order' =
          [current_order EXCEPT
              ![t] = IF @ = None THEN NewOrder(member_id) ELSE @]
    /\ ret' = Ret("start_order", t, 0, 0, member_id, 0, TRUE, "", 0, 0)
    /\ UNCHANGED <<now, pc, amount_tendered, stores, db_lock>>

\* start_order
start_order(t, member_id) ==
    /\ pc[t] = "idle"
    /\ current_order' = [current_order EXCEPT ![t] = NewOrder(member_id)]
    /\ ret' = Ret("start_order", t, 0, 0, member_id, 0, TRUE, "", 0, 0)
    /\ UNCHANGED <<now, pc, amount_tendered, stores, db_lock>>

\* mutant: a scan with no current order starts one
scan_into_autostart(t, op, barcode, product_id, quantity) ==
    /\ pc[t] = "idle"
    /\ LET product == get_product(product_id)
           R(ok, msg, n) ==
               Ret(op, t, product_id, quantity, barcode, 0, ok, msg, n, 0)
           order == IF current_order[t] = None THEN NewOrder(NoMember)
                    ELSE current_order[t]
       IN IF ~product.found
          THEN /\ ret' = R(FALSE, "Product not found", product_id)
               /\ UNCHANGED current_order
          ELSE IF product.stock < quantity
          THEN /\ ret' = R(FALSE, "Insufficient stock", product.stock)
               /\ UNCHANGED current_order
          ELSE LET items == add_item(order.items, product.id,
                                     product.price, quantity)
               IN /\ \A i \in 1..Len(items) :
                        /\ items[i].quantity <= MaxQty
                        /\ items[i].quantity >= -MaxQty
                  /\ current_order' =
                        [current_order EXCEPT
                            ![t] = [order EXCEPT !.items = items]]
                  /\ ret' = R(TRUE, "Added", quantity)
    /\ UNCHANGED <<now, pc, amount_tendered, stores, db_lock>>

\* the body of scan_product, reached directly (op = "scan_product") or
\* from scan_barcode (op = "scan_barcode", with the barcode it resolved)
scan_into(t, op, barcode, product_id, quantity) ==
    /\ pc[t] = "idle"
    /\ LET product == get_product(product_id)
           R(ok, msg, n) ==
               Ret(op, t, product_id, quantity, barcode, 0, ok, msg, n, 0)
       IN IF current_order[t] = None
          THEN /\ ret' = R(FALSE, "No active order", 0)
               /\ UNCHANGED current_order
          ELSE IF ~product.found
          THEN /\ ret' = R(FALSE, "Product not found", product_id)
               /\ UNCHANGED current_order
          ELSE IF product.stock < quantity
          THEN /\ ret' = R(FALSE, "Insufficient stock", product.stock)
               /\ UNCHANGED current_order
          ELSE LET items == add_item(current_order[t].items, product.id,
                                     product.price, quantity)
               IN /\ \A i \in 1..Len(items) :
                        /\ items[i].quantity <= MaxQty
                        /\ items[i].quantity >= -MaxQty
                  /\ current_order' =
                        [current_order EXCEPT ![t].items = items]
                  /\ ret' = R(TRUE, "Added", quantity)
    /\ UNCHANGED <<now, pc, amount_tendered, stores, db_lock>>

\* scan_product
scan_product(t, product_id, quantity) ==
    scan_into(t, "scan_product", "", product_id, quantity)

\* scan_barcode: the barcode is looked up first, then scan_product runs
scan_barcode(t, barcode, quantity) ==
    LET product == get_product_by_barcode(barcode)
    IN IF product.found
       THEN scan_into(t, "scan_barcode", barcode, product.id, quantity)
       ELSE /\ pc[t] = "idle"
            /\ ret' = Ret("scan_barcode", t, 0, quantity, barcode, 0,
                          FALSE, "Barcode not found", 0, 0)
            /\ UNCHANGED <<now, current_order, pc, amount_tendered,
                           stores, db_lock>>

\* mutant: cancel_order reports True whether or not there was an order
cancel_order_true(t) ==
    /\ pc[t] = "idle"
    /\ current_order' = [current_order EXCEPT ![t] = None]
    /\ ret' = Ret("cancel_order", t, 0, 0, "", 0, TRUE, "", 0, 0)
    /\ UNCHANGED <<now, pc, amount_tendered, stores, db_lock>>

\* cancel_order
cancel_order(t) ==
    /\ pc[t] = "idle"
    /\ IF current_order[t] # None
       THEN /\ current_order' = [current_order EXCEPT ![t] = None]
            /\ ret' = Ret("cancel_order", t, 0, 0, "", 0, TRUE, "", 0, 0)
       ELSE /\ UNCHANGED current_order
            /\ ret' = Ret("cancel_order", t, 0, 0, "", 0, FALSE, "", 0, 0)
    /\ UNCHANGED <<now, pc, amount_tendered, stores, db_lock>>

\* process_payment up to and including the first statement of save_order
\* (INSERT INTO orders), which takes the write lock or raises.
process_payment(t, payment_method, amount) ==
    /\ pc[t] = "idle"
    /\ LET R(ok, msg, n) ==
               Ret("process_payment", t, 0, 0, payment_method, amount,
                   ok, msg, n, 0)
       IN IF current_order[t] = None
          THEN /\ ret' = R(FALSE, "No order to process", 0)
               /\ UNCHANGED <<current_order, pc, amount_tendered, db_lock>>
          ELSE IF InsufficientAmount(current_order[t], amount)
          THEN /\ ret' = R(FALSE, "Insufficient amount",
                           total(current_order[t]) - amount)
               /\ UNCHANGED <<current_order, pc, amount_tendered, db_lock>>
          ELSE /\ current_order' =
                    [current_order EXCEPT
                        ![t] = MarkPaid(@, payment_method)]
               /\ IF Locked(db_lock)
                  THEN \* sqlite3.OperationalError: database is locked
                       /\ ret' = R(FALSE, "Failed to save order", 0)
                       /\ UNCHANGED <<pc, amount_tendered, db_lock>>
                  ELSE IF HasHeader(orders, current_order[t].order_id)
                  THEN \* sqlite3.IntegrityError; the connection is neither
                       \* closed nor rolled back and keeps the write lock
                       /\ ret' = R(FALSE, "Failed to save order", 0)
                       /\ db_lock' = "leaked"
                       /\ UNCHANGED <<pc, amount_tendered>>
                  ELSE /\ db_lock' = t
                       /\ pc' = [pc EXCEPT ![t] = "saving"]
                       /\ amount_tendered' =
                            [amount_tendered EXCEPT ![t] = amount]
                       /\ ret' = Ret("save_order", t, 0, 0, payment_method,
                                     amount, TRUE, "in progress", 0, 0)
    /\ UNCHANGED <<now, stores>>

\* the rest of save_order (items, update_stock calls, member accrual,
\* commit, close) and the rest of process_payment
finish_payment(t) ==
    /\ pc[t] = "saving"
    /\ LET order == current_order[t]
           saved == SaveItems(order, 1, <<>>, products, db_lock)
       IN /\ orders' = InsertHeader(orders, HeaderRow(order))
          /\ order_items' = order_items \o saved.rows
          /\ products' = saved.products
          /\ members' = MemberAccrual(members, order)
          /\ ret' = Ret("process_payment", t, 0, 0, order.payment_method,
                        amount_tendered[t], TRUE, "receipt", 0,
                        Change(order, amount_tendered[t]))
    /\ db_lock' = "free"
    /\ pc' = [pc EXCEPT ![t] = "idle"]
    /\ amount_tendered' = [amount_tendered EXCEPT ![t] = 0]
    /\ current_order' = [current_order EXCEPT ![t] = None]
    /\ UNCHANGED now

\* get_daily_sales: the date asked for, or today when none is given; the
\* result is returned as n = order_count, amount = total_sales,
\* change = avg_order, with pid = the date of the query
get_daily_sales(given, date) ==
    /\ LET day == IF given THEN date ELSE DateOf(now)
           r == daily_sales(orders, day)
       IN ret' = Ret("get_daily_sales", "", day, 0,
                     IF given THEN "date" ELSE "today", r.total_sales,
                     TRUE, "", r.order_count, r.avg_order)
    /\ UNCHANGED <<now, current_order, pc, amount_tendered, stores, db_lock>>

\* ------------------------------------------------------------- environment
\* Database.update_stock called by a client of its own
call_update_stock(product_id, quantity) ==
    /\ LET r == update_stock(products, db_lock, product_id, quantity)
       IN /\ products' = r.products
          /\ ret' = Ret("update_stock", "", product_id, quantity, "", 0,
                        r.ok, "", 0, 0)
    /\ UNCHANGED <<now, current_order, pc, amount_tendered,
                   orders, order_items, members, db_lock>>

\* the garbage collector closes a connection that save_order left open
collect_garbage ==
    /\ db_lock = "leaked"
    /\ db_lock' = "free"
    /\ ret' = Ret("gc", "", 0, 0, "", 0, TRUE, "", 0, 0)
    /\ UNCHANGED <<now, current_order, pc, amount_tendered, stores>>

\* datetime.now() moves to the next second
tick ==
    /\ now < MaxTime
    /\ now' = now + 1
    /\ ret' = Ret("tick", "", 0, 0, "", 0, TRUE, "", 0, 0)
    /\ UNCHANGED <<current_order, pc, amount_tendered, stores, db_lock>>

Next ==
    \/ \E t \in Tills, m \in MemberRefs : start_order(t, m)
    \/ \E t \in Tills, id \in ScanIds, q \in ScanQtys : scan_product(t, id, q)
    \/ \E t \in Tills : cancel_order(t)
    \/ \E t \in Tills, pm \in Methods, a \in Amounts : process_payment(t, pm, a)
    \/ \E t \in Tills : finish_payment(t)
    \/ \E d \in ReportDates : get_daily_sales(TRUE, d)
    \/ get_daily_sales(FALSE, 0)
    \/ collect_garbage
    \/ tick

Spec == Init /\ [][Next]_vars

NextConc ==
    \/ \E t \in AllTills, m \in ConcMemberRefs : start_order(t, m)
    \/ \E t \in AllTills, id \in ConcScanIds, q \in ConcScanQtys :
            scan_product(t, id, q)
    \/ \E t \in AllTills : cancel_order(t)
    \/ \E t \in AllTills, pm \in Methods, a \in ConcAmounts :
            process_payment(t, pm, a)
    \/ \E t \in AllTills : finish_payment(t)
    \/ \E id \in StockIds, q \in StockQtys : call_update_stock(id, q)
    \/ collect_garbage

SpecConc == Init /\ [][NextConc]_vars

NextMember ==
    \/ \E t \in Tills, m \in MemMemberRefs : start_order(t, m)
    \/ \E t \in Tills, id \in MemScanIds, q \in MemScanQtys :
            scan_product(t, id, q)
    \/ \E t \in Tills : cancel_order(t)
    \/ \E t \in Tills, pm \in Methods, a \in MemAmounts :
            process_payment(t, pm, a)
    \/ \E t \in Tills : finish_payment(t)
    \/ collect_garbage
    \/ tick

SpecMember == Init /\ [][NextMember]_vars

NextQty ==
    \/ \E t \in Tills, m \in MemberRefs : start_order(t, m)
    \/ \E t \in Tills, id \in QtyScanIds, q \in QtyScanQtys :
            scan_product(t, id, q)
    \/ \E t \in Tills, b \in QtyBarcodes, q \in QtyScanQtys :
            scan_barcode(t, b, q)
    \/ \E t \in Tills : cancel_order(t)
    \/ \E t \in Tills, pm \in Methods, a \in QtyAmounts :
            process_payment(t, pm, a)
    \/ \E t \in Tills : finish_payment(t)
    \/ collect_garbage
    \/ tick

SpecQty == Init /\ [][NextQty]_vars

NextLedger ==
    \/ \E t \in Tills, m \in MemberRefs : start_order(t, m)
    \/ \E t \in Tills, id \in LedgerScanIds, q \in LedgerScanQtys :
            scan_product(t, id, q)
    \/ \E t \in Tills : cancel_order(t)
    \/ \E t \in Tills, pm \in Methods, a \in LedgerAmounts :
            process_payment(t, pm, a)
    \/ \E t \in Tills : finish_payment(t)
    \/ collect_garbage
    \/ tick

SpecLedger == Init /\ [][NextLedger]_vars

\* ==================================================================== claims
\* a step in which till t calls process_payment (the call may still be
\* inside save_order after the step)
PayCall(t) ==
    /\ pc[t] = "idle"
    /\ ret'.op \in {"process_payment", "save_order"}
    /\ ret'.till = t

\* a step in which process_payment of till t returns success
PaySuccess(t) ==
    /\ pc[t] = "saving"
    /\ ret'.op = "process_payment"
    /\ ret'.till = t
    /\ ret'.ok

HeadersOf(rows, order_id) == {i \in 1..Len(rows) : rows[i].order_id = order_id}

\* C1: a process_payment call on a current order with an amount strictly
\* below the order's total returns failure "Insufficient amount"; the
\* current order afterwards is the same order with the same items, member
\* reference, payment method and payment status (Pending for an open
\* order), and products, orders, order_items and members are unchanged.
C1_ShortPaymentStep ==
    \A t \in AllTills :
        (/\ PayCall(t)
         /\ current_order[t] # None
         /\ ret'.amount < total(current_order[t]))
        => /\ ret'.op = "process_payment"
           /\ ~ret'.ok
           /\ ret'.msg = "Insufficient amount"
           /\ ret'.n = total(current_order[t]) - ret'.amount
           /\ current_order'[t] = current_order[t]
           /\ (current_order[t].payment_status = "Pending"
                 => current_order'[t].payment_status = "Pending")
           /\ pc'[t] = "idle"
           /\ stores' = stores

C1_ShortPaymentFails == [][C1_ShortPaymentStep]_vars

\* C1 witness: a short payment was refused on an open order with items
C1_Witness ==
    /\ ret.op = "process_payment"
    /\ ~ret.ok
    /\ ret.msg = "Insufficient amount"
    /\ current_order[ret.till] # None
    /\ current_order[ret.till].payment_status = "Pending"
    /\ current_order[ret.till].payment_method = "Cash"
    /\ Len(current_order[ret.till].items) > 0

\* C2: when process_payment returns success the amount was >= the total,
\* the change is amount - total >= 0, the till has no current order
\* afterwards, and the ledger holds exactly one header row with the order's
\* identifier, whose total_amount is the order's total at payment.
C2_SuccessStep ==
    \A t \in AllTills :
        PaySuccess(t)
        => LET order == current_order[t]
               hs == HeadersOf(orders', order.order_id)
           IN /\ ret'.amount >= total(order)
              /\ ret'.change = ret'.amount - total(order)
              /\ ret'.change >= 0
              /\ current_order'[t] = None
              /\ Cardinality(hs) = 1
              /\ \A i \in hs : orders'[i].total_amount = total(order)

C2_SuccessfulPayment == [][C2_SuccessStep]_vars

\* C2 witness: a payment succeeded with change due
C2_Witness ==
    /\ ret.op = "process_payment"
    /\ ret.ok
    /\ ret.change > 0
    /\ current_order[ret.till] = None
    /\ \E i \in 1..Len(orders) : orders[i].total_amount > 0

RECURSIVE QtyOf(_, _)
\* the quantity an order's lines hold of product id
QtyOf(items, id) ==
    IF items = <<>> THEN 0
    ELSE (IF Head(items).product_id = id THEN Head(items).quantity ELSE 0)
         + QtyOf(Tail(items), id)

\* C3: after a successful settlement the stock of every product is lower
\* than before the call by the quantity of the order's line for it, and the
\* stock of a product that is not in the order is unchanged.
C3_SettlementStep ==
    \A t \in AllTills :
        PaySuccess(t)
        => \A id \in DOMAIN products :
              products'[id].stock =
                 products[id].stock - QtyOf(current_order[t].items, id)

C3_SettlementDecrementsStock == [][C3_SettlementStep]_vars

\* C4: the stock of every product is >= 0 in every reachable state, and a
\* call of update_stock(id, q) returns true only if stock >= q held, in
\* which case stock drops by exactly q; otherwise it returns false and the
\* products table is unchanged.
C4_UpdateStockStep ==
    ret'.op = "update_stock"
    => IF ret'.ok
       THEN /\ ret'.pid \in DOMAIN products
            /\ products[ret'.pid].stock >= ret'.qty
            /\ products' = [products EXCEPT
                              ![ret'.pid].stock = @ - ret'.qty]
       ELSE products' = products

C4_StockNonNegative ==
    \A id \in DOMAIN products : products[id].stock >= 0

C4_StockNeverNegative ==
    [](C4_StockNonNegative) /\ [][C4_UpdateStockStep]_vars

\* C4 witness: concurrent calls have taken the last unit of product 1
\* while a settlement of another connection is in progress
C4_Witness ==
    /\ products[1].stock = 0
    /\ \E t \in AllTills : pc[t] = "saving"
    /\ ret.op = "update_stock"
    /\ ~ret.ok
    /\ ret.pid = 1

\* C5: an order holds at most one line per product id; a successful scan of
\* (id, q) adds q to the line of that product when there is one and leaves
\* every other line and the order of the lines alone, and otherwise appends
\* a line with quantity q at the end; so item_count grows by q, a line's
\* quantity is the sum of the successful scans of its product, and the
\* lines stand in order of first scan.
C5_OneLinePerProduct ==
    \A t \in AllTills :
        current_order[t] # None
        => \A i, j \in 1..Len(current_order[t].items) :
              current_order[t].items[i].product_id
                 = current_order[t].items[j].product_id => i = j

C5_ScanStep ==
    \A t \in AllTills :
        (ret'.op = "scan_product" /\ ret'.till = t /\ ret'.ok)
        => LET old == current_order[t].items
               new == current_order'[t].items
               id == ret'.pid
               q == ret'.qty
           IN /\ item_count(current_order'[t])
                   = item_count(current_order[t]) + q
              /\ IF \E i \in 1..Len(old) : old[i].product_id = id
                 THEN /\ Len(new) = Len(old)
                      /\ \A i \in 1..Len(old) :
                            new[i] = IF old[i].product_id = id
                                     THEN [old[i] EXCEPT !.quantity = @ + q]
                                     ELSE old[i]
                 ELSE /\ Len(new) = Len(old) + 1
                      /\ \A i \in 1..Len(old) : new[i] = old[i]
                      /\ new[Len(new)].product_id = id
                      /\ new[Len(new)].quantity = q

C5_StartStep ==
    \A t \in AllTills :
        (ret'.op = "start_order" /\ ret'.till = t)
        => current_order'[t].items = <<>>

C5_MergeInvariant ==
    [](C5_OneLinePerProduct) /\ [][C5_ScanStep /\ C5_StartStep]_vars

\* C5 witness: two products were scanned and a repeated scan was merged
C5_Witness ==
    /\ ret.op = "scan_product"
    /\ ret.ok
    /\ Len(current_order[ret.till].items) = 2
    /\ current_order[ret.till].items[1].quantity = 2
    /\ ret.pid = current_order[ret.till].items[1].product_id
    /\ ret.qty = 1

RECURSIVE SoldQty(_, _)
\* the quantity of product id in the committed order_items rows
SoldQty(rows, id) ==
    IF rows = <<>> THEN 0
    ELSE (IF Head(rows).product_id = id THEN Head(rows).quantity ELSE 0)
         + SoldQty(Tail(rows), id)

\* C6: settlement is all-or-nothing.  A process_payment call that fails in
\* save_order leaves orders, order_items, products and members as they
\* were; and with a single till as the only writer, stock has been
\* decremented by exactly what the committed line items record (no
\* decrement without a committed ledger entry, no committed ledger entry
\* without its decrements).
C6_FailedCommitStep ==
    \A t \in AllTills :
        (PayCall(t) /\ ret'.op = "process_payment" /\ ~ret'.ok)
        => stores' = stores

C6_LedgerMatchesStock ==
    \A id \in DOMAIN products :
        SampleProducts[id].stock - products[id].stock
            = SoldQty(order_items, id)

C6_AllOrNothing ==
    [](C6_LedgerMatchesStock) /\ [][C6_FailedCommitStep]_vars

\* C7: a successful settlement of an order whose member_id names a member
\* row adds the order total to that row's total_spent and
\* floor(total_cents / 10) to its points; every other member row, and every
\* member row in any other step, is unchanged.
C7_MemberStep ==
    /\ \A t \in AllTills :
          PaySuccess(t)
          => LET order == current_order[t]
             IN \A m \in DOMAIN members :
                   members'[m] =
                      IF m = order.member_id
                      THEN [points |-> members[m].points
                                         + (total(order) \div 10),
                            total_spent |-> members[m].total_spent
                                         + total(order)]
                      ELSE members[m]
    /\ (\A t \in AllTills : ~PaySuccess(t)) => members' = members
    /\ DOMAIN members' = DOMAIN members

C7_MemberAccrual == [][C7_MemberStep]_vars

\* C7 witness: member M001 was credited for a settled order
C7_Witness ==
    /\ ret.op = "process_payment"
    /\ ret.ok
    /\ members["M001"].points > SampleMembers["M001"].points
    /\ orders[Len(orders)].member_id = "M001"
    /\ orders[Len(orders)].total_amount > 0

\* C8: a process_payment call that reaches save_order with an order whose
\* identifier is already in the ledger returns failure, leaves orders and
\* order_items exactly as they were, and the ledger never holds two header
\* rows with the same order identifier.
C8_UniqueHeaders ==
    \A i, j \in 1..Len(orders) :
        orders[i].order_id = orders[j].order_id => i = j

C8_DuplicateStep ==
    \A t \in AllTills :
        (/\ PayCall(t)
         /\ current_order[t] # None
         /\ ret'.amount >= total(current_order[t])
         /\ HeadersOf(orders, current_order[t].order_id) # {})
        => /\ ret'.op = "process_payment"
           /\ ~ret'.ok
           /\ ret'.msg = "Failed to save order"
           /\ pc'[t] = "idle"
           /\ orders' = orders
           /\ order_items' = order_items

C8_DuplicateOrderFails ==
    [](C8_UniqueHeaders) /\ [][C8_DuplicateStep]_vars

\* C8 witness: save_order has refused an order with items whose identifier
\* was already in the ledger
C8_Witness ==
    /\ ret.op = "process_payment"
    /\ ~ret.ok
    /\ ret.msg = "Failed to save order"
    /\ db_lock = "leaked"
    /\ Len(current_order[ret.till].items) > 0
    /\ HeadersOf(orders, current_order[ret.till].order_id) # {}

\* C9: scan_product(id, q) on a current order fails with "Product <id> not
\* found" when no active product has the id, and with "Insufficient stock.
\* Only N available" when the product's stock N is below q; a failed scan
\* leaves the current order and every table as they were.
C9_ScanStep ==
    \A t \in AllTills :
        (ret'.op = "scan_product" /\ ret'.till = t /\ current_order[t] # None)
        => LET id == ret'.pid
               q == ret'.qty
               active == id \in DOMAIN products /\ products[id].active
           IN /\ ~active => /\ ~ret'.ok
                            /\ ret'.msg = "Product not found"
                            /\ ret'.n = id
              /\ (active /\ products[id].stock < q)
                    => /\ ~ret'.ok
                       /\ ret'.msg = "Insufficient stock"
                       /\ ret'.n = products[id].stock
              /\ ~ret'.ok => /\ current_order' = current_order
                             /\ stores' = stores

C9_FailedScanLeavesOrder == [][C9_ScanStep]_vars

\* C9 witness: a scan was refused for lack of stock on an order with items
C9_Witness ==
    /\ ret.op = "scan_product"
    /\ ~ret.ok
    /\ ret.msg = "Insufficient stock"
    /\ ret.n < ret.qty
    /\ current_order[ret.till] # None
    /\ Len(current_order[ret.till].items) > 0

\* C10: cancel_order with a current order returns true, leaves no current
\* order and leaves orders, order_items, products and members unchanged;
\* with no current order it returns false and changes nothing.
C10_CancelStep ==
    \A t \in AllTills :
        (ret'.op = "cancel_order" /\ ret'.till = t)
        => /\ stores' = stores
           /\ IF current_order[t] # None
              THEN /\ ret'.ok
                   /\ current_order'[t] = None
              ELSE /\ ~ret'.ok
                   /\ current_order' = current_order
           /\ UNCHANGED <<now, pc, amount_tendered, db_lock>>

C10_CancelOrder == [][C10_CancelStep]_vars

\* C10 witness: an order was cancelled while the ledger held a sale
C10_Witness ==
    /\ ret.op = "cancel_order"
    /\ ret.ok
    /\ current_order[ret.till] = None
    /\ Len(orders) > 0
    /\ Len(order_items) > 0

\* C11: start_order, called in any state (an open order with scanned items
\* included), makes the till's current order a fresh one: no items, status
\* Pending, method Cash, the member reference that was given.  The items of
\* the order it replaces are written nowhere: products, orders, order_items
\* and members are unchanged.
C11_StartStep ==
    \A t \in AllTills :
        (ret'.op = "start_order" /\ ret'.till = t) =>
            /\ current_order'[t] # None
            /\ current_order'[t].items = <<>>
            /\ current_order'[t].payment_status = "Pending"
            /\ current_order'[t].payment_method = "Cash"
            /\ current_order'[t].member_id = ret'.method
            /\ stores' = stores

C11_StartOrderReplaces == [][C11_StartStep]_vars

\* start_order has run for an unknown member after orders were committed
\* and left an empty order behind
C11_Witness ==
    /\ ret.op = "start_order"
    /\ ret.method = "M999"
    /\ current_order[ret.till].items = <<>>
    /\ current_order[ret.till].member_id = "M999"
    /\ Len(order_items) > 0

DatedHeaders(date) ==
    {i \in 1..Len(orders) : DateOf(orders[i].created_at) = date}

RECURSIVE SumTotals(_)
SumTotals(S) ==
    IF S = {} THEN 0
    ELSE LET i == CHOOSE j \in S : TRUE
         IN orders[i].total_amount + SumTotals(S \ {i})

\* C12: get_daily_sales(date) returns as order_count the number of committed
\* headers whose creation date is that date and as total_sales the sum of
\* their totals; with no such header it returns order_count 0, total_sales 0
\* and avg_order 0.  Without a date it reports on today.
C12_ReportStep ==
    ret'.op = "get_daily_sales" =>
        LET S == DatedHeaders(ret'.pid)
        IN /\ ret'.method = "today" => ret'.pid = DateOf(now)
           /\ ret'.n = Cardinality(S)
           /\ ret'.amount = SumTotals(S)
           /\ S = {} => ret'.n = 0 /\ ret'.amount = 0 /\ ret'.change = 0

C13_QuantitiesPositive ==
    /\ \A t \in AllTills :
          current_order[t] # None =>
              \A i \in 1..Len(current_order[t].items) :
                  current_order[t].items[i].quantity >= 1
    /\ \A i \in 1..Len(order_items) : order_items[i].quantity >= 1

\* C14: the identifier of an order that start_order creates differs from
\* the identifier of the order the till held before and from every
\* identifier in the ledger, whatever the timing of the calls.
C14_FreshIdStep ==
    \A t \in AllTills :
        (ret'.op = "start_order" /\ ret'.till = t) =>
            /\ ~HasHeader(orders, current_order'[t].order_id)
            /\ current_order[t] # None =>
                   current_order'[t].order_id # current_order[t].order_id

C14_OrderIdsUnique == [][C14_FreshIdStep]_vars

\* C15: when process_payment fails in save_order, the current order stays
\* the same order (identifier, items, member), is not cleared, and has
\* status Paid; a later process_payment on it with a sufficient amount is
\* not refused but goes to save_order again, and proceeds when the database
\* is free and holds no header of that identifier; the status of an order
\* never goes from Paid back to Pending.
C15_FailedCommitStep ==
    \A t \in AllTills :
        (PayCall(t) /\ ret'.msg = "Failed to save order") =>
            /\ current_order[t] # None
            /\ current_order'[t] # None
            /\ current_order'[t].order_id = current_order[t].order_id
            /\ current_order'[t].items = current_order[t].items
            /\ current_order'[t].member_id = current_order[t].member_id
            /\ current_order'[t].payment_status = "Paid"

C15_RetryStep ==
    \A t \in AllTills :
        (/\ PayCall(t)
         /\ current_order[t] # None
         /\ current_order[t].payment_status = "Paid"
         /\ ret'.amount >= total(current_order[t])) =>
            /\ ret'.msg \in {"Failed to save order", "in progress"}
            /\ (~Locked(db_lock)
                /\ ~HasHeader(orders, current_order[t].order_id)) =>
                   ret'.op = "save_order"

C15_NoRevertStep ==
    \A t \in AllTills :
        (/\ current_order[t] # None
         /\ current_order[t].payment_status = "Paid"
         /\ current_order'[t] # None
         /\ ret'.op # "start_order") =>
            current_order'[t].payment_status = "Paid"

C15_FailedCommitKeepsOrder ==
    [][C15_FailedCommitStep /\ C15_RetryStep /\ C15_NoRevertStep]_vars

\* process_payment has failed in save_order on an order with items whose
\* identifier is not in the ledger, so a retry can still go through
C15_Witness ==
    /\ ret.op = "process_payment"
    /\ ret.msg = "Failed to save order"
    /\ current_order[ret.till] # None
    /\ current_order[ret.till].payment_status = "Paid"
    /\ current_order[ret.till].items # <<>>
    /\ ~HasHeader(orders, current_order[ret.till].order_id)

Unresolved(order) ==
    order.member_id # NoMember /\ order.member_id \notin DOMAIN members

\* C16: a member reference that matches no member never blocks a sale:
\* process_payment with a sufficient amount goes to save_order as it does
\* without a member, the settlement succeeds with the same change, the
\* committed header records the reference, and no member row is created or
\* changed.
C16_UnresolvedStep ==
    \A t \in AllTills :
        /\ (/\ PayCall(t)
            /\ current_order[t] # None
            /\ Unresolved(current_order[t])
            /\ ret'.amount >= total(current_order[t])
            /\ ~Locked(db_lock)
            /\ ~HasHeader(orders, current_order[t].order_id)) =>
               ret'.op = "save_order"
        /\ (PaySuccess(t) /\ Unresolved(current_order[t])) =>
               /\ members' = members
               /\ Len(orders') = Len(orders) + 1
               /\ orders'[Len(orders')].member_id = current_order[t].member_id
               /\ orders'[Len(orders')].total_amount = total(current_order[t])
               /\ ret'.change = ret'.amount - total(current_order[t])
               /\ current_order'[t] = None

C16_UnknownMemberSale == [][C16_UnresolvedStep]_vars

\* an order with items for a member that does not exist has been settled
C16_Witness ==
    /\ ret.op = "process_payment"
    /\ ret.ok
    /\ Len(orders) > 0
    /\ orders[Len(orders)].member_id = "M999"
    /\ orders[Len(orders)].total_amount > 0
    /\ "M999" \notin DOMAIN members

\* C17: with no current order, scan_product, scan_barcode and
\* process_payment each return failure, no order comes into existence and
\* the stores are unchanged; only start_order leaves the no-order state.
C17_NoOrderStep ==
    \A t \in AllTills :
        current_order[t] = None =>
            /\ (/\ ret'.till = t
                /\ ret'.op \in {"scan_product", "scan_barcode",
                                "process_payment", "save_order"}) =>
                   /\ ~ret'.ok
                   /\ current_order'[t] = None
                   /\ stores' = stores
            /\ current_order'[t] # None =>
                   ret'.op = "start_order" /\ ret'.till = t

C17_NoOrderRejects == [][C17_NoOrderStep]_vars

\* a barcode of the catalog was scanned while the till had no order
C17_Witness ==
    /\ ret.op = "scan_barcode"
    /\ ret.msg = "No active order"
    /\ ret.pid = 1
    /\ current_order[ret.till] = None

\* C18: the ledger only grows: a committed header and committed line items
\* are neither changed nor removed by any later operation.
C18_AppendOnlyStep ==
    /\ Len(orders') >= Len(orders)
    /\ \A i \in 1..Len(orders) : orders'[i] = orders[i]
    /\ Len(order_items') >= Len(order_items)
    /\ \A i \in 1..Len(order_items) : order_items'[i] = order_items[i]

C18_LedgerAppendOnly == [][C18_AppendOnlyStep]_vars

\* a second order has been committed after a first one with line items
C18_Witness ==
    /\ Len(orders) = 2
    /\ Len(order_items) >= 2
    /\ order_items[1].order_id = orders[1].order_id
    /\ ret.op = "process_payment"
    /\ ret.ok

RECURSIVE RowSubtotals(_, _)
RowSubtotals(rows, order_id) ==
    IF rows = <<>> THEN 0
    ELSE (IF Head(rows).order_id = order_id
          THEN Head(rows).unit_price * Head(rows).quantity
               - Head(rows).discount
          ELSE 0)
         + RowSubtotals(Tail(rows), order_id)

\* C19: every committed header has status Paid and committed line items
\* whose subtotals add up to exactly its total_amount; every committed line
\* item belongs to a committed header; and a settlement commits the header
\* together with one row for each line of the order, never fewer.
C19_HeadersComplete ==
    /\ \A i \in 1..Len(orders) :
          /\ orders[i].payment_status = "Paid"
          /\ RowSubtotals(order_items, orders[i].order_id)
                 = orders[i].total_amount
    /\ \A j \in 1..Len(order_items) :
          HasHeader(orders, order_items[j].order_id)

C19_CommitStep ==
    \A t \in AllTills :
        PaySuccess(t) =>
            /\ Len(orders') = Len(orders) + 1
            /\ Len(order_items') =
                   Len(order_items) + Len(current_order[t].items)

C19_LedgerConsistent == [](C19_HeadersComplete) /\ [][C19_CommitStep]_vars

\* a committed order has two lines, one of them with quantity two
C19_Witness ==
    \E i \in 1..Len(orders) :
        /\ Cardinality(HeadersOf(order_items, orders[i].order_id)) = 2
        /\ \E j \in HeadersOf(order_items, orders[i].order_id) :
              order_items[j].quantity = 2

\* C20: on a single till with no other writer, after any sequence of scans
\* the quantity of each line of the current order is at most the catalog
\* stock of the line's product.
C20_LineWithinStock ==
    \A t \in Tills :
        current_order[t] # None =>
            \A i \in 1..Len(current_order[t].items) :
                current_order[t].items[i].quantity
                    <= products[current_order[t].items[i].product_id].stock

TypeOK ==
    /\ now \in 0..MaxTime
    /\ \A t \in AllTills : pc[t] \in {"idle", "saving"}
    /\ db_lock \in {"free", "leaked"} \cup AllTills
====
